---- MODULE Spec2Model ----
(***************************************************************************)
(* A model of the Gemini pass-through server (src/index.js) and of the     *)
(* chat front end (src/unnamed/part_000).                                  *)
(*                                                                         *)
(*   SpecExtract : extractText applied to upstream results                 *)
(*   SpecServer  : the POST /generate-text handler                         *)
(*   SpecRender  : renderMarkdown applied to texts (and to its own output) *)
(*   SpecChat    : the chat form, its submit handler and the pending calls *)
(*   LiveChat    : SpecChat with the fairness of the browser's event loop  *)
(*                                                                         *)
(* JavaScript strings are sequences of one-character strings everywhere.   *)
(***************************************************************************)
EXTENDS Integers, Sequences, FiniteSets, TLC

VARIABLES
    resp,          \* the upstream result (GenerationResult) handed to extractText
    extracted,     \* extractText: how its call ended (kind "none" before the call)
    reqBody,       \* /generate-text: req.body of the request being handled
    handler,       \* /generate-text: "idle", "awaiting" (the upstream call) or "done"
    upstream,      \* /generate-text: the upstream call: "none", "pending", "resolved", "rejected"
    upstreamCalls, \* /generate-text: calls of ai.models.generateContent for this request
    resStatus,     \* /generate-text: the status of the response sent (0: none yet)
    resBody,       \* /generate-text: the value handed to res.json
    responsesSent, \* /generate-text: responses sent for this request
    markdownText,  \* renderMarkdown: the text to render
    htmlText,      \* renderMarkdown: what the first pass returned
    htmlAgain,     \* renderMarkdown: what a second pass over htmlText returned
    passes,        \* renderMarkdown: passes made so far (0, 1 or 2)
    inputValue,    \* chat: userInput.value
    inputDisabled, \* chat: userInput.disabled
    sendDisabled,  \* chat: sendButton.disabled
    inputFocused,  \* chat: userInput holds the focus
    chatBox,       \* chat: the message bubbles of chatBox, oldest first
    calls,         \* chat: the invocations of handleChatSubmit that reached fetch
    submits        \* chat: submit events dispatched to the form so far

extractVars == <<extracted>>
serverVars == <<reqBody, handler, upstream, upstreamCalls, resStatus, resBody, responsesSent>>
renderVars == <<markdownText, htmlText, htmlAgain, passes>>
chatVars == <<inputValue, inputDisabled, sendDisabled, inputFocused, chatBox, calls, submits>>
vars == <<resp, extractVars, serverVars, renderVars, chatVars>>

(***************************************************************************)
(* JavaScript values.                                                      *)
(***************************************************************************)
Undefined == [type |-> "undefined"]
Null == [type |-> "null"]
Str(s) == [type |-> "string", s |-> s]
Num(n) == [type |-> "number", n |-> n]
Bool(b) == [type |-> "boolean", b |-> b]
\* a BigInt: JSON.stringify raises a TypeError on it
BigIntValue == [type |-> "bigint"]
\* the value slot of an accessor property whose getter raises
ThrowingGetter == [type |-> "getter_throws"]
\* an object: its own enumerable properties in insertion order
Obj(props) == [type |-> "object", props |-> props]
Arr(items) == [type |-> "array", items |-> items]
P(k, v) == [k |-> k, v |-> v]

\* how an evaluation ends: normally with a value, or abruptly
Returns(v) == [kind |-> "return", value |-> v]
Throws(m) == [kind |-> "throw", message |-> m]

\* v is null or undefined: what ?. and ?? test
IsNullish(v) == v.type \in {"undefined", "null"}

\* v.name for a property name
GetProp(v, name) ==
    IF v.type = "object" /\ \E i \in 1..Len(v.props) : v.props[i].k = name
    THEN LET i == CHOOSE j \in 1..Len(v.props) : v.props[j].k = name
         IN  IF v.props[i].v.type = "getter_throws"
             THEN Throws("getter")
             ELSE Returns(v.props[i].v)
    ELSE Returns(Undefined)

\* v[i] for an array index
GetIndex(v, i) ==
    CASE v.type = "array" /\ i < Len(v.items) -> Returns(v.items[i + 1])
      [] v.type = "string" /\ i < Len(v.s) -> Returns(Str(<<v.s[i + 1]>>))
      [] v.type = "object" -> GetProp(v, ToString(i))
      [] OTHER -> Returns(Undefined)

Name(k) == [name |-> k, index |-> -1]
Index(i) == [name |-> "", index |-> i]

\* one link a?.b or a?.[i] of an optional chain
OptionalStep(v, step) ==
    IF IsNullish(v) THEN Returns(Undefined)
    ELSE IF step.index >= 0 THEN GetIndex(v, step.index)
    ELSE GetProp(v, step.name)

\* v?.s1?.s2 ... : every link of the chains of extractText is optional
RECURSIVE OptionalChain(_, _)
OptionalChain(v, steps) ==
    IF Len(steps) = 0 THEN Returns(v)
    ELSE LET r == OptionalStep(v, Head(steps))
         IN  IF r.kind = "throw" THEN r ELSE OptionalChain(r.value, Tail(steps))

(***************************************************************************)
(* JSON.stringify(value, null, 2).                                         *)
(***************************************************************************)
RECURSIVE Digits(_)
Digits(n) == IF n < 10 THEN <<ToString(n)>> ELSE Digits(n \div 10) \o <<ToString(n % 10)>>

\* the JSON text of a number
NumberToString(n) == IF n < 0 THEN <<"-">> \o Digits(-n) ELSE Digits(n)

\* QuoteJSONString: the characters JSON escapes, among those the model uses
RECURSIVE EscapeChars(_)
EscapeChars(s) ==
    IF Len(s) = 0 THEN <<>>
    ELSE (CASE Head(s) = "\"" -> <<"\\", "\"">>
            [] Head(s) = "\\" -> <<"\\", "\\">>
            [] Head(s) = "\n" -> <<"\\", "n">>
            [] OTHER -> <<Head(s)>>) \o EscapeChars(Tail(s))

QuoteJSONString(s) == <<"\"">> \o EscapeChars(s) \o <<"\"">>

\* the gap of JSON.stringify(_, _, 2)
Gap == <<" ", " ">>

\* SerializeJSONProperty, with the members of an object and the elements of an
\* array: acc holds the texts of the members serialized so far
RECURSIVE SerializeJSON(_, _)
RECURSIVE SerializeMembers(_, _, _)
RECURSIVE SerializeElements(_, _, _)
RECURSIVE JoinLines(_, _)

\* the partial texts, each on its own line at indentation ind, separated by commas
JoinLines(parts, ind) ==
    IF Len(parts) = 1 THEN ind \o parts[1]
    ELSE ind \o parts[1] \o <<",", "\n">> \o JoinLines(Tail(parts), ind)

SerializeMembers(props, ind, acc) ==
    IF Len(props) = 0 THEN Returns(acc)
    ELSE LET p == Head(props)
         IN  IF p.v.type = "getter_throws" THEN Throws("getter")
             ELSE LET r == SerializeJSON(p.v, ind)
                  IN  IF r.kind = "throw" THEN r
                      ELSE IF r.value.type = "undefined"
                      THEN SerializeMembers(Tail(props), ind, acc)
                      ELSE SerializeMembers(Tail(props), ind,
                               Append(acc, QuoteJSONString(p.k) \o <<":", " ">> \o r.value.s))

SerializeElements(items, ind, acc) ==
    IF Len(items) = 0 THEN Returns(acc)
    ELSE LET r == SerializeJSON(Head(items), ind)
         IN  IF r.kind = "throw" THEN r
             ELSE SerializeElements(Tail(items), ind,
                      Append(acc, IF r.value.type = "undefined"
                                  THEN <<"n", "u", "l", "l">> ELSE r.value.s))

SerializeJSON(v, ind) ==
    CASE v.type = "null" -> Returns(Str(<<"n", "u", "l", "l">>))
      [] v.type = "string" -> Returns(Str(QuoteJSONString(v.s)))
      [] v.type = "number" -> Returns(Str(NumberToString(v.n)))
      [] v.type = "boolean" ->
            Returns(Str(IF v.b THEN <<"t", "r", "u", "e">> ELSE <<"f", "a", "l", "s", "e">>))
      [] v.type = "bigint" -> Throws("Do not know how to serialize a BigInt")
      [] v.type = "object" ->
            LET r == SerializeMembers(v.props, ind \o Gap, <<>>)
            IN  IF r.kind = "throw" THEN r
                ELSE IF Len(r.value) = 0 THEN Returns(Str(<<"{", "}">>))
                ELSE Returns(Str(<<"{", "\n">> \o JoinLines(r.value, ind \o Gap)
                                 \o <<"\n">> \o ind \o <<"}">>))
      [] v.type = "array" ->
            LET r == SerializeElements(v.items, ind \o Gap, <<>>)
            IN  IF r.kind = "throw" THEN r
                ELSE IF Len(r.value) = 0 THEN Returns(Str(<<"[", "]">>))
                ELSE Returns(Str(<<"[", "\n">> \o JoinLines(r.value, ind \o Gap)
                                 \o <<"\n">> \o ind \o <<"]">>))
      [] OTHER -> Returns(Undefined)

\* JSON.stringify(v, null, 2): a string, undefined (for undefined), or a TypeError
JSONStringify(v) == SerializeJSON(v, <<>>)

(***************************************************************************)
(* extractText (src/index.js).                                             *)
(***************************************************************************)
\* resp?.response?.candidates?.[0]?.content?.parts?.[0]?.text
PathA == <<Name("response"), Name("candidates"), Index(0), Name("content"),
           Name("parts"), Index(0), Name("text")>>
\* resp?.candidates?.[0]?.content?.parts?.[0]?.text
PathB == <<Name("candidates"), Index(0), Name("content"), Name("parts"), Index(0),
           Name("text")>>
\* resp?.response?.candidates?.[0]?.content?.text
PathC == <<Name("response"), Name("candidates"), Index(0), Name("content"), Name("text")>>

\* a || b in the place of a ?? b
CoalesceFalsy(a, b) ==
    IF a.kind = "throw" THEN a
    ELSE IF \/ IsNullish(a.value)
            \/ a.value.type = "string" /\ Len(a.value.s) = 0
            \/ a.value.type = "number" /\ a.value.n = 0
         THEN b ELSE a

\* a ?? b, b given as the evaluation it stands for: b is evaluated only when a is nullish
Coalesce(a, b) ==
    IF a.kind = "throw" THEN a
    ELSE IF IsNullish(a.value) THEN b ELSE a

\* the catch block: it serializes resp once more, outside any try
ExtractCatch(r) == JSONStringify(r)

\* the try block: the three chains, then the serialization as the last resort
ExtractTry(r) ==
    LET text == Coalesce(OptionalChain(r, PathA),
                    Coalesce(OptionalChain(r, PathB), OptionalChain(r, PathC)))
    IN  Coalesce(text, JSONStringify(r))

ExtractText(r) ==
    LET t == ExtractTry(r)
    IN  IF t.kind = "throw" THEN ExtractCatch(r) ELSE t

(***************************************************************************)
(* The upstream results the model draws from: the three known shapes, cut  *)
(* off at every level, and results that are no plain data.                 *)
(***************************************************************************)
Absent == [type |-> "absent"]

\* an object holding the properties whose value is not Absent
ObjOf(props) == Obj(SelectSeq(props, LAMBDA p : p.v # Absent))

TextA == <<"a">>
TextB == <<"b">>
TextC == <<"c">>

\* what may sit where a text is looked for
Leaves(t) == {Absent, Null, Str(t), Str(<<>>), Num(0)}

PartsOf(t) ==
    {Absent, Arr(<<>>)} \cup {Arr(<<ObjOf(<<P("text", leaf)>>)>>) : leaf \in Leaves(t)}

\* response.candidates[0].content: shapes A (parts[0].text) and C (text)
ContentsAC ==
    {ObjOf(<<P("parts", ps), P("text", c)>>) : ps \in PartsOf(TextA), c \in {Absent, Null, Str(TextC)}}

CandidatesAC ==
    {Absent, Arr(<<>>), Arr(<<Obj(<<>>)>>)} \cup {Arr(<<Obj(<<P("content", c)>>)>>) : c \in ContentsAC}

Responses ==
    {Absent, Null, Str(<<"x">>)} \cup {ObjOf(<<P("candidates", cs)>>) : cs \in CandidatesAC}

\* candidates[0].content.parts[0].text: shape B
CandidatesB ==
    {Absent, Arr(<<>>)}
    \cup {Arr(<<Obj(<<P("content", Obj(<<P("parts", Arr(<<ObjOf(<<P("text", leaf)>>)>>))>>))>>)>>) :
             leaf \in {Absent, Null, Str(TextB)}}

PlainResults ==
    {ObjOf(<<P("response", r), P("candidates", cs)>>) : r \in Responses, cs \in CandidatesB}

\* results that are not objects, that hold a BigInt, or whose getter raises
OddResults ==
    { Undefined, Null, Str(<<"o", "k">>), Num(7), BigIntValue,
      Obj(<<P("usage", BigIntValue)>>),
      Obj(<<P("candidates", Arr(<<>>)), P("usage", BigIntValue)>>),
      Obj(<<P("response", Obj(<<P("candidates", Arr(<<Obj(<<P("content",
                Obj(<<P("text", Str(TextC))>>))>>)>>))>>)), P("usage", BigIntValue)>>),
      Obj(<<P("response", ThrowingGetter)>>),
      Obj(<<P("candidates", Arr(<<Obj(<<P("content", ThrowingGetter)>>)>>))>>),
      Obj(<<P("response", Obj(<<P("candidates", Arr(<<Obj(<<P("content",
                Obj(<<P("parts", Arr(<<Obj(<<P("text", Str(TextA))>>)>>))>>))>>)>>))>>)),
            P("candidates", ThrowingGetter)>>) }

Results == PlainResults \cup OddResults

NotCalled == [kind |-> "none"]

(***************************************************************************)
(* SpecExtract: extractText called on a result.                            *)
(***************************************************************************)
InitServerIdle ==
    /\ reqBody = Undefined
    /\ handler = "idle"
    /\ upstream = "none"
    /\ upstreamCalls = 0
    /\ resStatus = 0
    /\ resBody = Undefined
    /\ responsesSent = 0

InitRenderIdle ==
    /\ markdownText = <<>>
    /\ htmlText = <<>>
    /\ htmlAgain = <<>>
    /\ passes = 0

InitChatIdle ==
    /\ inputValue = <<>>
    /\ inputDisabled = FALSE
    /\ sendDisabled = FALSE
    /\ inputFocused = FALSE
    /\ chatBox = <<>>
    /\ calls = <<>>
    /\ submits = 0

InitExtract ==
    /\ resp \in Results
    /\ extracted = NotCalled
    /\ InitServerIdle
    /\ InitRenderIdle
    /\ InitChatIdle

\* extractText(resp)
CallExtractText ==
    /\ extracted = NotCalled
    /\ extracted' = ExtractText(resp)
    /\ UNCHANGED <<resp, serverVars, renderVars, chatVars>>

NextExtract == CallExtractText

SpecExtract == InitExtract /\ [][NextExtract]_vars

(***************************************************************************)
(* SpecServer: app.post('/generate-text') handling one request at a time.  *)
(***************************************************************************)
\* const { prompt } = req.body || {}
PromptOf(body) ==
    IF body.type = "object" THEN GetProp(body, "prompt").value ELSE Undefined

\* !v
IsFalsy(v) ==
    \/ IsNullish(v)
    \/ v.type = "string" /\ Len(v.s) = 0
    \/ v.type = "number" /\ v.n = 0
    \/ v.type = "boolean" /\ ~v.b

\* the check without its !prompt
PromptRejectedTypeOnly(prompt) == prompt.type # "string"

\* !prompt || typeof prompt !== 'string'
PromptRejected(prompt) == IsFalsy(prompt) \/ prompt.type # "string"

\* res.status(400).json({ prompt: "Prompt is missing or invalid format." })
BadRequestBody == Obj(<<P("prompt", Str(<<"i", "n", "v", "a", "l", "i", "d">>))>>)

\* the bodies a request may carry: none, and JSON objects with and without a prompt
RequestBodies ==
    {Undefined, Obj(<<>>), Obj(<<P("other", Num(1))>>)}
    \cup {Obj(<<P("prompt", v)>>) :
             v \in {Null, Str(<<>>), Str(<<"h", "i">>), Str(<<" ">>), Num(0), Num(5),
                    Bool(TRUE), Obj(<<>>), Arr(<<Str(<<"h", "i">>)>>)}}

\* the messages of the errors generateContent may reject with
UpstreamErrors == {<<"q", "u", "o", "t", "a">>, <<"n", "e", "t">>}

InitServer ==
    /\ resp = Undefined
    /\ extracted = NotCalled
    /\ InitServerIdle
    /\ InitRenderIdle
    /\ InitChatIdle

\* a request arrives: the handler runs to its first await, or to its 400
ReceiveRequest(body) ==
    /\ handler = "idle"
    /\ reqBody' = body
    /\ IF PromptRejected(PromptOf(body))
       THEN /\ resStatus' = 400
            /\ resBody' = BadRequestBody
            /\ responsesSent' = responsesSent + 1
            /\ handler' = "done"
            /\ UNCHANGED <<upstream, upstreamCalls>>
       ELSE /\ upstream' = "pending"
            /\ upstreamCalls' = upstreamCalls + 1
            /\ handler' = "awaiting"
            /\ UNCHANGED <<resStatus, resBody, responsesSent>>
    /\ UNCHANGED <<resp, extracted, renderVars, chatVars>>

\* generateContent resolves with r: res.json({ result: extractText(response) }),
\* or the catch block when extractText raises
UpstreamResolves(r) ==
    /\ handler = "awaiting"
    /\ upstream' = "resolved"
    /\ resp' = r
    /\ LET e == ExtractText(r)
       IN  IF e.kind = "throw"
           THEN /\ resStatus' = 500
                /\ resBody' = Obj(<<P("error", Str(<<"T", "y", "p", "e", "E", "r", "r", "o", "r">>))>>)
           ELSE /\ resStatus' = 200
                /\ resBody' = Obj(<<P("result", e.value)>>)
    /\ responsesSent' = responsesSent + 1
    /\ handler' = "done"
    /\ UNCHANGED <<extracted, reqBody, upstreamCalls, renderVars, chatVars>>

\* generateContent rejects: res.status(500).json({ error: err.message })
UpstreamRejects(message) ==
    /\ handler = "awaiting"
    /\ upstream' = "rejected"
    /\ resStatus' = 500
    /\ resBody' = Obj(<<P("error", Str(message))>>)
    /\ responsesSent' = responsesSent + 1
    /\ handler' = "done"
    /\ UNCHANGED <<resp, extracted, reqBody, upstreamCalls, renderVars, chatVars>>

\* the next request: a fresh invocation of the handler
NextRequest ==
    /\ handler = "done"
    /\ handler' = "idle"
    /\ reqBody' = Undefined
    /\ upstream' = "none"
    /\ upstreamCalls' = 0
    /\ resStatus' = 0
    /\ resBody' = Undefined
    /\ responsesSent' = 0
    /\ resp' = Undefined
    /\ UNCHANGED <<extracted, renderVars, chatVars>>

NextServer ==
    \/ \E body \in RequestBodies : ReceiveRequest(body)
    \/ \E r \in Results : UpstreamResolves(r)
    \/ \E m \in UpstreamErrors : UpstreamRejects(m)
    \/ NextRequest

SpecServer == InitServer /\ [][NextServer]_vars

(***************************************************************************)
(* renderMarkdown (src/unnamed/part_000).                                  *)
(***************************************************************************)
TagBr == <<"<", "b", "r", ">">>
TagStrongOpen == <<"<", "s", "t", "r", "o", "n", "g", ">">>
TagStrongClose == <<"<", "/", "s", "t", "r", "o", "n", "g", ">">>
TagEmOpen == <<"<", "e", "m", ">">>
TagEmClose == <<"<", "/", "e", "m", ">">>
TagAnchorHref == <<"<", "a", " ", "h", "r", "e", "f", "=", "\"">>
TagAnchorTarget == <<"\"", " ", "t", "a", "r", "g", "e", "t", "=", "\"", "_", "b", "l", "a", "n", "k", "\"", ">">>
TagAnchorClose == <<"<", "/", "a", ">">>
TagH3Open == <<"<", "h", "3", ">">>
TagH3Close == <<"<", "/", "h", "3", ">">>
TagLiOpen == <<"<", "l", "i", ">">>
TagLiClose == <<"<", "/", "l", "i", ">">>
TagUlOpen == <<"<", "u", "l", ">">>
TagUlClose == <<"<", "/", "u", "l", ">">>

\* the characters . does not match, and those \s matches
IsLineTerminator(c) == c \in {"\n", "\r"}
IsWhitespace(c) == c \in {" ", "\t", "\n", "\r"}

\* .* can run over s[from..to]
DotMatches(s, from, to) == \A k \in from..to : ~IsLineTerminator(s[k])

\* ^ under the m flag
AtLineStart(s, i) == i = 1 \/ IsLineTerminator(s[i - 1])

\* the last index (.*$) reaches from index from on, under the m flag
LineEnd(s, from) ==
    IF \E k \in from..Len(s) : IsLineTerminator(s[k])
    THEN (CHOOSE k \in from..Len(s) :
             IsLineTerminator(s[k]) /\ DotMatches(s, from, k - 1)) - 1
    ELSE Len(s)

Least(S) == CHOOSE x \in S : \A y \in S : x <= y

NoMatch == [last |-> 0, out |-> <<>>]
Match(last, out) == [last |-> last, out |-> out]

\* the line break kept behind the <br>
MatchNewlineKeepingIt(s, i) == IF s[i] = "\n" THEN Match(i, TagBr \o <<"\n">>) ELSE NoMatch

\* /\n/ at index i
MatchNewline(s, i) == IF s[i] = "\n" THEN Match(i, TagBr) ELSE NoMatch

\* /\*\*(.*?)\*\*/ at index i
MatchBold(s, i) ==
    IF i + 1 <= Len(s) /\ s[i] = "*" /\ s[i + 1] = "*"
    THEN LET closing == {j \in (i + 2)..(Len(s) - 1) :
                            s[j] = "*" /\ s[j + 1] = "*" /\ DotMatches(s, i + 2, j - 1)}
         IN  IF closing = {} THEN NoMatch
             ELSE Match(Least(closing) + 1,
                        TagStrongOpen \o SubSeq(s, i + 2, Least(closing) - 1) \o TagStrongClose)
    ELSE NoMatch

\* /\*(.*?)\*/ at index i
MatchItalic(s, i) ==
    IF s[i] = "*"
    THEN LET closing == {j \in (i + 1)..Len(s) : s[j] = "*" /\ DotMatches(s, i + 1, j - 1)}
         IN  IF closing = {} THEN NoMatch
             ELSE Match(Least(closing),
                        TagEmOpen \o SubSeq(s, i + 1, Least(closing) - 1) \o TagEmClose)
    ELSE NoMatch

\* /\[(.*?)\]\((.*?)\)/ at index i
MatchLink(s, i) ==
    IF s[i] = "["
    THEN LET ends(j) == {k \in (j + 2)..Len(s) : s[k] = ")" /\ DotMatches(s, j + 2, k - 1)}
             middles == {j \in (i + 1)..(Len(s) - 1) :
                            /\ s[j] = "]" /\ s[j + 1] = "("
                            /\ DotMatches(s, i + 1, j - 1)
                            /\ ends(j) # {}}
         IN  IF middles = {} THEN NoMatch
             ELSE LET j == Least(middles)
                      k == Least(ends(j))
                  IN  Match(k, TagAnchorHref \o SubSeq(s, j + 2, k - 1) \o TagAnchorTarget
                               \o SubSeq(s, i + 1, j - 1) \o TagAnchorClose)
    ELSE NoMatch

\* /^#{2}\s(.*$)/im at index i
MatchHeading(s, i) ==
    IF /\ AtLineStart(s, i)
       /\ i + 2 <= Len(s)
       /\ s[i] = "#" /\ s[i + 1] = "#"
       /\ IsWhitespace(s[i + 2])
    THEN Match(LineEnd(s, i + 3), TagH3Open \o SubSeq(s, i + 3, LineEnd(s, i + 3)) \o TagH3Close)
    ELSE NoMatch

\* /^\*\s(.*$)/im at index i
MatchListItem(s, i) ==
    IF /\ AtLineStart(s, i)
       /\ i + 1 <= Len(s)
       /\ s[i] = "*"
       /\ IsWhitespace(s[i + 1])
    THEN Match(LineEnd(s, i + 2), TagLiOpen \o SubSeq(s, i + 2, LineEnd(s, i + 2)) \o TagLiClose)
    ELSE NoMatch

MatchAt(rule, s, i) ==
    CASE rule = "newline" -> MatchNewline(s, i)
      [] rule = "bold" -> MatchBold(s, i)
      [] rule = "italic" -> MatchItalic(s, i)
      [] rule = "link" -> MatchLink(s, i)
      [] rule = "heading" -> MatchHeading(s, i)
      [] rule = "list" -> MatchListItem(s, i)

\* String.prototype.replace with a g-flagged pattern, from index i on: the leftmost
\* match is replaced and the search goes on behind it
RECURSIVE ReplaceFrom(_, _, _)
ReplaceFrom(rule, s, i) ==
    IF i > Len(s) THEN <<>>
    ELSE LET m == MatchAt(rule, s, i)
         IN  IF m.last > 0
             THEN m.out \o ReplaceFrom(rule, s, m.last + 1)
             ELSE <<s[i]>> \o ReplaceFrom(rule, s, i + 1)

ReplaceAll(rule, s) == ReplaceFrom(rule, s, 1)

\* String.prototype.includes
Includes(s, sub) ==
    \E i \in 1..(Len(s) - Len(sub) + 1) : SubSeq(s, i, i + Len(sub) - 1) = sub

\* italic before bold
RuleOrderItalicFirst == <<"newline", "italic", "bold", "link", "heading", "list">>

\* the order of the substitutions of renderMarkdown
RuleOrder == <<"newline", "bold", "italic", "link", "heading", "list">>

RECURSIVE ApplyRules(_, _)
ApplyRules(rules, s) ==
    IF Len(rules) = 0 THEN s ELSE ApplyRules(Tail(rules), ReplaceAll(Head(rules), s))

\* if (htmlText.includes('<li>')) htmlText = `<ul>${htmlText}</ul>`
WrapList(s) == IF Includes(s, TagLiOpen) THEN TagUlOpen \o s \o TagUlClose ELSE s

RenderMarkdown(text) == WrapList(ApplyRules(RuleOrder, text))

(***************************************************************************)
(* SpecRender: renderMarkdown called on a text, then on what it returned.  *)
(***************************************************************************)
\* the longest text over Alphabet, and over StarAlphabet, the model renders
MaxLen == 4
MaxStarLen == 6

Alphabet == {"*", " ", "a", "\n", "#", "[", "]", "(", ")"}
StarAlphabet == {"*", " ", "a", "\n"}

TextsOver(alphabet, n) == UNION {[1..k -> alphabet] : k \in 0..n}

\* the texts the specification names, and one with a link inside a link's address
ExampleTexts ==
    { <<"*", "*", "a", "*", "*", " ", "*", "b", "*">>,
      <<"[", "x", "]", "(", "h", "t", "t", "p", ":", "/", "/", "y", ")">>,
      <<"#", "#", " ", "T", "i", "t", "l", "e">>,
      <<"*", " ", "o", "n", "e", "\n", "*", " ", "t", "w", "o">>,
      <<"*", "*", "a", "*", "*", " ", "*", "*", "b">>,
      <<"[", "a", "]", "(", "[", "b", "]", "(", "c", ")", ")">> }

MarkdownTexts ==
    TextsOver(Alphabet, MaxLen) \cup TextsOver(StarAlphabet, MaxStarLen) \cup ExampleTexts

InitRender ==
    /\ markdownText \in MarkdownTexts
    /\ htmlText = <<>>
    /\ htmlAgain = <<>>
    /\ passes = 0
    /\ resp = Undefined
    /\ extracted = NotCalled
    /\ InitServerIdle
    /\ InitChatIdle

\* renderMarkdown(markdownText)
Render ==
    /\ passes = 0
    /\ htmlText' = RenderMarkdown(markdownText)
    /\ passes' = 1
    /\ UNCHANGED <<markdownText, htmlAgain, resp, extractVars, serverVars, chatVars>>

\* renderMarkdown applied to what the first pass returned
RenderAgain ==
    /\ passes = 1
    /\ htmlAgain' = RenderMarkdown(htmlText)
    /\ passes' = 2
    /\ UNCHANGED <<markdownText, htmlText, resp, extractVars, serverVars, chatVars>>

NextRender == Render \/ RenderAgain

SpecRender == InitRender /\ [][NextRender]_vars

(***************************************************************************)
(* The chat form (src/unnamed/part_000): handleChatSubmit and the calls it *)
(* leaves pending.                                                         *)
(***************************************************************************)
\* the submit events the model dispatches
MaxSubmits == 2

ThinkingText == <<"T", "h", "i", "n", "k", "i", "n", "g", ".", ".", ".">>
NoResponseText ==
    <<"S", "o", "r", "r", "y", ",", " ", "n", "o", " ", "r", "e", "s", "p", "o", "n", "s", "e", " ", "w", "a", "s", " ">>
    \o <<"r", "e", "c", "e", "i", "v", "e", "d", " ", "f", "r", "o", "m", " ", "t", "h", "e", " ", "s", "e", "r", "v", "e", "r", ".">>
FailedText ==
    <<"F", "a", "i", "l", "e", "d", " ", "t", "o", " ", "g", "e", "t", " ", "a", " ", "r", "e", "s", "p", "o", "n", "s", "e", ".", " ">>
    \o <<"P", "l", "e", "a", "s", "e", " ", "c", "h", "e", "c", "k", " ", "t", "h", "e", " ", "c", "o", "n", "n", "e", "c", "t", "i", "o", "n", " ">>
    \o <<"a", "n", "d", " ", "t", "r", "y", " ", "a", "g", "a", "i", "n", ".">>

\* String.prototype.trim
RECURSIVE TrimStart(_)
TrimStart(s) == IF Len(s) > 0 /\ IsWhitespace(Head(s)) THEN TrimStart(Tail(s)) ELSE s
RECURSIVE TrimEnd(_)
TrimEnd(s) ==
    IF Len(s) > 0 /\ IsWhitespace(s[Len(s)]) THEN TrimEnd(SubSeq(s, 1, Len(s) - 1)) ELSE s
\* no trim at all
TrimNothing(s) == s

Trim(s) == TrimEnd(TrimStart(s))

\* addMessage(message, role): one more bubble, its <p> holding message
AddMessage(box, message, role) == Append(box, [role |-> role, p |-> message, error |-> FALSE])

\* the input's value left as it is
ValueKept(value) == value

\* userInput.value = '' after the user's bubble is added
ValueAfterSubmit(value) == <<>>

\* data.result !== undefined in the place of data.result
HasResultDefined(data) == ~IsFalsy(data) /\ GetProp(data, "result").value # Undefined

\* data && data.result
HasResult(data) == ~IsFalsy(data) /\ ~IsFalsy(GetProp(data, "result").value)

\* renderMarkdown(v): v.replace is no function unless v is a string
CallRenderMarkdown(v) ==
    IF v.type = "string" THEN Returns(RenderMarkdown(v.s))
    ELSE Throws("markdownText.replace is not a function")

\* what the try block leaves in the placeholder once response.json() gave data
ShowData(data) ==
    IF HasResult(data)
    THEN LET html == CallRenderMarkdown(GetProp(data, "result").value)
         IN  IF html.kind = "throw" THEN html
             ELSE Returns([role |-> "bot", p |-> html.value, error |-> FALSE])
    ELSE Returns([role |-> "bot", p |-> NoResponseText, error |-> FALSE])

\* what the catch block leaves in the placeholder
ShowFailure == [role |-> "bot", p |-> FailedText, error |-> TRUE]

\* the controls enabled again at the end of the try block only
FinallyRunsAfterTryOnly(outcome) == outcome \notin {"transport_error", "http_error", "bad_body"}

\* the finally block runs however the try block ended
FinallyRuns(outcome) == TRUE

\* what the user may type, and the bodies response.json() may give
ChatInputs == {<<>>, <<" ">>, <<"a">>, <<" ", "a", " ">>, <<"a", " ", "b">>}
ChatData ==
    { Null, Obj(<<>>), Str(<<"x">>),
      Obj(<<P("result", Str(<<>>))>>),
      Obj(<<P("result", Str(<<"*", " ", "a">>))>>),
      Obj(<<P("result", Num(5))>>) }

Call(element, message) ==
    [element |-> element, message |-> message, at |-> "fetch", outcome |-> "pending",
     data |-> Undefined]

otherThanChat == <<resp, extractVars, serverVars, renderVars>>

Pending == {c \in 1..Len(calls) : calls[c].at # "done"}

InitChat ==
    /\ InitChatIdle
    /\ InitRenderIdle
    /\ InitServerIdle
    /\ resp = Undefined
    /\ extracted = NotCalled

\* the user edits the input, which a disabled control does not allow
TypeInput(text) ==
    /\ ~inputDisabled
    /\ inputValue' = text
    /\ UNCHANGED <<inputDisabled, sendDisabled, inputFocused, chatBox, calls, submits>>
    /\ UNCHANGED otherThanChat

\* a submit event: handleChatSubmit up to its await fetch(...)
HandleChatSubmit ==
    /\ submits < MaxSubmits
    /\ submits' = submits + 1
    /\ LET userMessage == Trim(inputValue)
       IN  IF Len(userMessage) = 0
           THEN UNCHANGED <<inputValue, inputDisabled, sendDisabled, inputFocused, chatBox, calls>>
           ELSE /\ inputDisabled' = TRUE
                /\ sendDisabled' = TRUE
                /\ inputFocused' = FALSE
                /\ chatBox' = AddMessage(AddMessage(chatBox, userMessage, "user"),
                                         ThinkingText, "bot")
                /\ inputValue' = ValueAfterSubmit(inputValue)
                /\ calls' = Append(calls, Call(Len(chatBox) + 2, userMessage))
    /\ UNCHANGED otherThanChat

\* the call c ends: the placeholder gets bubble, then the finally block
Settle(c, bubble, outcome, data) ==
    /\ chatBox' = [chatBox EXCEPT ![calls[c].element] = bubble]
    /\ calls' = [calls EXCEPT ![c] = [@ EXCEPT !.at = "done", !.outcome = outcome,
                                               !.data = data]]
    /\ inputDisabled' = (IF FinallyRuns(outcome) THEN FALSE ELSE inputDisabled)
    /\ sendDisabled' = (IF FinallyRuns(outcome) THEN FALSE ELSE sendDisabled)
    /\ inputFocused' = (IF FinallyRuns(outcome) THEN TRUE ELSE inputFocused)
    /\ UNCHANGED <<inputValue, submits>>
    /\ UNCHANGED otherThanChat

\* fetch rejects: no connection
FetchRejects(c) ==
    /\ calls[c].at = "fetch"
    /\ Settle(c, ShowFailure, "transport_error", Undefined)

\* fetch resolves with a response: !response.ok throws, else await response.json()
FetchResolves(c, ok) ==
    /\ calls[c].at = "fetch"
    /\ IF ok
       THEN /\ calls' = [calls EXCEPT ![c] = [@ EXCEPT !.at = "json", !.outcome = "ok"]]
            /\ UNCHANGED <<inputValue, inputDisabled, sendDisabled, inputFocused, chatBox,
                           submits>>
            /\ UNCHANGED otherThanChat
       ELSE Settle(c, ShowFailure, "http_error", Undefined)

\* response.json() rejects: the body is no JSON
JsonRejects(c) ==
    /\ calls[c].at = "json"
    /\ Settle(c, ShowFailure, "bad_body", Undefined)

\* response.json() resolves with data
JsonResolves(c, data) ==
    /\ calls[c].at = "json"
    /\ LET shown == ShowData(data)
       IN  IF shown.kind = "throw"
           THEN Settle(c, ShowFailure, "data", data)
           ELSE Settle(c, shown.value, "data", data)

FetchSettles == \E c \in 1..Len(calls) : FetchRejects(c) \/ \E ok \in BOOLEAN : FetchResolves(c, ok)
JsonSettles == \E c \in 1..Len(calls) : JsonRejects(c) \/ \E data \in ChatData : JsonResolves(c, data)

NextChat ==
    \/ \E text \in ChatInputs : TypeInput(text)
    \/ HandleChatSubmit
    \/ \E c \in 1..Len(calls) : FetchRejects(c)
    \/ \E c \in 1..Len(calls), ok \in BOOLEAN : FetchResolves(c, ok)
    \/ \E c \in 1..Len(calls) : JsonRejects(c)
    \/ \E c \in 1..Len(calls), data \in ChatData : JsonResolves(c, data)

SpecChat == InitChat /\ [][NextChat]_vars

\* every call that was started settles: the network answers or fails
LiveChat == SpecChat /\ WF_vars(FetchSettles) /\ WF_vars(JsonSettles)

(***************************************************************************)
(* Claims about extractText.                                               *)
(***************************************************************************)
\* the value of an own data property, undefined when there is none
FieldOf(v, name) ==
    IF v.type = "object" /\ \E i \in 1..Len(v.props) : v.props[i].k = name
    THEN (CHOOSE p \in {v.props[i] : i \in 1..Len(v.props)} : p.k = name).v
    ELSE Undefined

\* the first element of an array, undefined when there is none
FirstOf(v) == IF v.type = "array" /\ Len(v.items) > 0 THEN v.items[1] ELSE Undefined

ShapeA(r) ==
    FieldOf(FirstOf(FieldOf(FieldOf(FirstOf(FieldOf(FieldOf(r, "response"), "candidates")),
                                    "content"), "parts")), "text")
ShapeB(r) ==
    FieldOf(FirstOf(FieldOf(FieldOf(FirstOf(FieldOf(r, "candidates")), "content"), "parts")),
            "text")
ShapeC(r) ==
    FieldOf(FieldOf(FirstOf(FieldOf(FieldOf(r, "response"), "candidates")), "content"), "text")

\* no accessor property anywhere in v
RECURSIVE NoGetter(_)
NoGetter(v) ==
    CASE v.type = "getter_throws" -> FALSE
      [] v.type = "object" -> \A i \in 1..Len(v.props) : NoGetter(v.props[i].v)
      [] v.type = "array" -> \A i \in 1..Len(v.items) : NoGetter(v.items[i])
      [] OTHER -> TRUE

\* v is JSON data: no accessor property and no BigInt anywhere in it
RECURSIVE IsJSONData(_)
IsJSONData(v) ==
    CASE v.type \in {"getter_throws", "bigint"} -> FALSE
      [] v.type = "object" -> \A i \in 1..Len(v.props) : IsJSONData(v.props[i].v)
      [] v.type = "array" -> \A i \in 1..Len(v.items) : IsJSONData(v.items[i])
      [] OTHER -> TRUE

\* a result matching none of the shapes, and its serialization with 2-space indentation
SampleResult ==
    Obj(<<P("response", Obj(<<P("candidates", Arr(<<Obj(<<>>)>>))>>)),
          P("candidates", Arr(<<>>))>>)
SampleJSON ==
    <<"{", "\n">>
    \o <<" ", " ", "\"", "r", "e", "s", "p", "o", "n", "s", "e", "\"", ":", " ", "{", "\n">>
    \o <<" ", " ", " ", " ", "\"", "c", "a", "n", "d", "i", "d", "a", "t", "e", "s", "\"",
         ":", " ", "[", "\n">>
    \o <<" ", " ", " ", " ", " ", " ", "{", "}", "\n">>
    \o <<" ", " ", " ", " ", "]", "\n">>
    \o <<" ", " ", "}", ",", "\n">>
    \o <<" ", " ", "\"", "c", "a", "n", "d", "i", "d", "a", "t", "e", "s", "\"", ":", " ",
         "[", "]", "\n">>
    \o <<"}">>

\* every line of a text starts with an even number of spaces followed by a non-space
\* (the text has no space before a line break)
RECURSIVE LeadingSpaces(_)
LeadingSpaces(s) == IF Len(s) > 0 /\ Head(s) = " " THEN 1 + LeadingSpaces(Tail(s)) ELSE 0

\* C1: for every result object (without accessor properties), extractText returns the
\* first of the values at shapes A, B, C that is neither null nor undefined, whichever
\* other shapes are absent; when all three are null or undefined and the result is JSON
\* data, it returns the JSON text of the whole result with 2-space indentation.
C1_FirstPresentShapeOrJSON ==
    (extracted # NotCalled /\ resp.type = "object" /\ NoGetter(resp)) =>
        LET a == ShapeA(resp)
            b == ShapeB(resp)
            c == ShapeC(resp)
        IN  IF ~IsNullish(a) THEN extracted = Returns(a)
            ELSE IF ~IsNullish(b) THEN extracted = Returns(b)
            ELSE IF ~IsNullish(c) THEN extracted = Returns(c)
            ELSE IsJSONData(resp) =>
                    /\ extracted.kind = "return"
                    /\ extracted.value.type = "string"
                    /\ Head(extracted.value.s) = "{"
                    /\ extracted.value.s[Len(extracted.value.s)] = "}"
                    /\ \A i \in 1..(Len(extracted.value.s) - 1) :
                          extracted.value.s[i] = "\n" =>
                              LeadingSpaces(SubSeq(extracted.value.s, i + 1,
                                                   Len(extracted.value.s))) % 2 = 0
                    /\ resp = SampleResult => extracted.value.s = SampleJSON

\* C1 witness: shape A absent, shape B null, shape C present, and C's text returned
C1_Witness ==
    /\ extracted = Returns(Str(TextC))
    /\ resp.type = "object"
    /\ ShapeA(resp) = Undefined
    /\ ShapeB(resp) = Null

\* C2: extractText never propagates an error to its caller: for every input the call
\* returns, also when the serialization of the result fails
C2_NeverRaises == extracted # NotCalled => extracted.kind = "return"

(***************************************************************************)
(* Claims about POST /generate-text.                                       *)
(***************************************************************************)
\* what every request gets, given when the handler answers 400
RequestOutcome(badRequest) ==
    /\ handler # "done" => responsesSent = 0
    /\ handler = "done" =>
          /\ responsesSent = 1
          /\ resStatus \in {200, 400, 500}
          /\ resStatus = 400 <=> badRequest
          /\ resStatus = 400 => upstreamCalls = 0 /\ upstream = "none"
          /\ resStatus # 400 =>
                /\ upstreamCalls = 1
                /\ upstream \in {"resolved", "rejected"}
                /\ resStatus = 200 <=> (upstream = "resolved" /\ ExtractText(resp).kind = "return")
                /\ resStatus = 200 => resBody = Obj(<<P("result", ExtractText(resp).value)>>)
                /\ resStatus = 500 =>
                      /\ Len(resBody.props) = 1
                      /\ resBody.props[1].k = "error"
                      /\ resBody.props[1].v.type = "string"

\* C3 as stated: one response per request; 400 exactly when the prompt is missing or not
\* a string, without an upstream call; otherwise one upstream call and 200 with the
\* extracted text, or 500 with the error's message
C3_Stated400IffMissingOrNotString ==
    RequestOutcome(FieldOf(reqBody, "prompt").type # "string")

\* C3 amended: as stated, with 400 also for the empty string
C3_400IffMissingNotStringOrEmpty ==
    RequestOutcome(\/ FieldOf(reqBody, "prompt").type # "string"
                   \/ FieldOf(reqBody, "prompt") = Str(<<>>))

\* C3 witness: a request with the empty prompt answered 400 without an upstream call
C3_Witness ==
    /\ handler = "done"
    /\ reqBody = Obj(<<P("prompt", Str(<<>>))>>)
    /\ resStatus = 400
    /\ upstreamCalls = 0

(***************************************************************************)
(* Claims about renderMarkdown.                                            *)
(***************************************************************************)
\* the number of places where sub occurs in s
Occurrences(s, sub) ==
    Cardinality({i \in 1..(Len(s) - Len(sub) + 1) : SubSeq(s, i, i + Len(sub) - 1) = sub})

StartsWith(s, sub) == Len(s) >= Len(sub) /\ SubSeq(s, 1, Len(sub)) = sub
EndsWith(s, sub) == Len(s) >= Len(sub) /\ SubSeq(s, Len(s) - Len(sub) + 1, Len(s)) = sub

\* where the lines of t that begin with "* " start
ListLines(t) ==
    {i \in 1..(Len(t) - 1) : (i = 1 \/ t[i - 1] = "\n") /\ t[i] = "*" /\ t[i + 1] = " "}

TwoStars == <<"*", "*">>

\* t holds a "**" and, two or more places behind it, another "**"
HasBoldPair(t) ==
    \E p, q \in 1..(Len(t) - 1) :
        /\ q >= p + 2
        /\ SubSeq(t, p, p + 1) = TwoStars
        /\ SubSeq(t, q, q + 1) = TwoStars

\* s holds a [label](address) the link rule matches
HasLinkPattern(s) ==
    \E i, j, k \in 1..Len(s) :
        /\ i < j /\ j + 2 <= k
        /\ s[i] = "[" /\ s[j] = "]" /\ s[j + 1] = "(" /\ s[k] = ")"

BoldItalicText == <<"*", "*", "a", "*", "*", " ", "*", "b", "*">>
BoldItalicHtml == <<"<", "s", "t", "r", "o", "n", "g", ">", "a", "<", "/", "s", "t", "r", "o", "n", "g", ">", " ", "<", "e", "m", ">", "b", "<", "/", "e", "m", ">">>

\* C6: every line of the input that begins with "* " becomes a list item of its own, and
\* the output is wrapped exactly once in one list container when there is a list item
C6_EveryStarLineIsAListItem ==
    passes >= 1 =>
        LET n == Cardinality(ListLines(markdownText))
        IN  /\ Occurrences(htmlText, TagLiOpen) = n
            /\ Occurrences(htmlText, TagLiClose) = n
            /\ Occurrences(htmlText, TagUlOpen) = (IF n > 0 THEN 1 ELSE 0)
            /\ n > 0 => StartsWith(htmlText, TagUlOpen) /\ EndsWith(htmlText, TagUlClose)

\* C7 as stated: a second pass over the output of renderMarkdown changes nothing
C7_StatedIdempotent == passes = 2 => htmlAgain = htmlText

\* C7 amended: when the output holds no [label](address) the link rule still matches, a
\* second pass changes nothing if the output holds no list item, and otherwise only
\* wraps the output in one more list container
C7_SecondPassOnlyWrapsLists ==
    (passes = 2 /\ ~HasLinkPattern(htmlText)) =>
        htmlAgain = IF Includes(htmlText, TagLiOpen)
                    THEN TagUlOpen \o htmlText \o TagUlClose
                    ELSE htmlText

\* C7 witness: a rendered list item, wrapped once more by the second pass
C7_Witness ==
    /\ passes = 2
    /\ markdownText = <<"*", " ", "a">>
    /\ htmlText = TagUlOpen \o TagLiOpen \o <<"a">> \o TagLiClose \o TagUlClose
    /\ htmlAgain = TagUlOpen \o htmlText \o TagUlClose

IsBlank(s) == \A i \in 1..Len(s) : s[i] \in {" ", "\t", "\n", "\r"}

FormEnabled == ~inputDisabled /\ ~sendDisabled

\* C4: a submit event on an empty or white-space-only input starts no network call and
\* changes nothing: no bubble, the input's value kept, the controls as they were
C4_BlankSubmitChangesNothing ==
    [][(submits' = submits + 1 /\ IsBlank(inputValue)) =>
          UNCHANGED <<inputValue, inputDisabled, sendDisabled, inputFocused, chatBox, calls>>]_vars

\* C4 witness: a submit event was handled on a white-space-only input of the idle form
C4_Witness ==
    /\ submits >= 1
    /\ inputValue = <<" ">>
    /\ Len(calls) = 0
    /\ Len(chatBox) = 0
    /\ FormEnabled

\* C5: once its network call settles, every submission that started one is followed by a
\* state with the input and the submit control enabled, whatever the outcome; the form
\* is not disabled unless a call is pending
C5_FormReEnabledAfterSettle ==
    /\ (Pending # {}) ~> FormEnabled
    /\ [](Pending = {} => FormEnabled)

\* C5 witness: a call that ended with an error raised while reading the response, and
\* the form enabled and focused again
C5_Witness ==
    /\ \E c \in 1..Len(calls) : calls[c].at = "done" /\ calls[c].outcome = "bad_body"
    /\ Pending = {}
    /\ FormEnabled
    /\ inputFocused

\* C9: at most one network call of the form is pending; while one is, both controls are
\* disabled and the input is empty, and a submit event starts no call and adds no bubble
C9_OneCallAtATime ==
    /\ [](/\ Cardinality(Pending) <= 1
          /\ Pending # {} => (inputDisabled /\ sendDisabled /\ Len(inputValue) = 0))
    /\ [][(Pending # {} /\ submits' = submits + 1) => UNCHANGED <<chatBox, calls>>]_vars

\* C9 witness: a call pending after two submit events, with the bubbles of one submission
C9_Witness ==
    /\ submits = 2
    /\ Pending # {}
    /\ Len(calls) = 1
    /\ Len(chatBox) = 2

\* what every accepted submission leaves in the chat box, given the calls whose result
\* is rendered, those answered without a result, and those that failed
Bubbles(rendered(_), empty(_), failed(_)) ==
    /\ Len(chatBox) = 2 * Len(calls)
    /\ \A c \in 1..Len(calls) :
          LET call == calls[c]
              bot == chatBox[2 * c]
          IN  /\ call.element = 2 * c
              /\ chatBox[2 * c - 1] = [role |-> "user", p |-> call.message, error |-> FALSE]
              /\ bot.role = "bot"
              /\ call.at # "done" => (bot.p = ThinkingText /\ ~bot.error)
              /\ call.at = "done" =>
                    /\ bot.p # ThinkingText
                    /\ rendered(call) \/ empty(call) \/ failed(call)
                    /\ rendered(call) => bot.p = RenderMarkdown(FieldOf(call.data, "result").s)
                    /\ empty(call) => bot.p = NoResponseText
                    /\ failed(call) => bot.p = FailedText
                    /\ bot.error <=> failed(call)

\* the result field of a success response is absent or empty
NoResultField(call) ==
    /\ call.outcome = "data"
    /\ FieldOf(call.data, "result") \in {Undefined, Null, Str(<<>>)}

====
